---- MODULE Spec2Model ----
(***************************************************************************)
(* Model of GooseLanguageModel (goose-language-model.ts): one call, either *)
(* doGenerate (spawnGooseProcess + eventsToGenerateResult) or doStream     *)
(* (createStreamFromProcess wrapped in a ReadableStream), together with    *)
(* the subprocess, its stdout lines, the abort signal and the timer.       *)
(***************************************************************************)
EXTENDS Integers, Sequences, FiniteSets, TLC

\* ---------------------------------------------------------------- bounds
\* number of stdout lines the subprocess writes in one call
MaxLines == 3
\* number of stderr chunks the subprocess writes in one call
MaxStderr == 1
\* length of settings.args
MaxArgs == 2
\* number of items in the content list of a tool result
MaxItems == 3
\* number of stdout lines each of the concurrent calls' processes writes
MaxPeerLines == 2
\* number of messages in a message-list prompt
MaxMessages == 3
\* number of sessions the example server creates
MaxSessions == 2
\* number of stream requests the example server receives
MaxRequests == 2
\* number of characters the process writes to stdout, and in one chunk
MaxChars == 3
MaxChunk == 2

\* ------------------------------------------------------ program constants
\* the exit code of a process terminated by a signal (JavaScript null)
NoCode == -1
\* currentTextPartId = null
NoId == 0

\* --------------------------------------------------------- content items
Item(type, text, id, hasToolCall, result) ==
  [type |-> type, text |-> text, id |-> id, hasToolCall |-> hasToolCall,
   result |-> result]

\* an item of a tool result's content list: type is 'text', 'resource' or
\* another type, text is the item's text (for a resource item the text of its
\* resource); annotated = FALSE when the item has no annotations.audience,
\* otherwise audience holds the elements of the annotated array
ResultItem(type, text, annotated, audience) ==
  [type |-> type, text |-> text, annotated |-> annotated, audience |-> audience]

TextA == Item("text", "a", "", FALSE, <<>>)
TextB == Item("text", "b", "", FALSE, <<>>)
TextEmpty == Item("text", "", "", FALSE, <<>>)
ToolReq == Item("toolRequest", "", "t1", TRUE, <<>>)
ToolReqNoCall == Item("toolRequest", "", "t1", FALSE, <<>>)
ToolResp ==
  Item("toolResponse", "", "t1", FALSE,
       <<ResultItem("text", "r", FALSE, {}),
         ResultItem("text", "s", TRUE, {"assistant"}),
         ResultItem("text", "u", TRUE, {"user", "assistant"})>>)

\* ----------------------------------------------------------- stdout lines
\* A line is the JSON text of one event, or text that JSON.parse rejects
\* (type "unparsable").  total_tokens = 0 also stands for an absent field.
\* A notification event takes no branch of either decoder and is left out of
\* Lines; in the streaming call it behaves like the unparsable line.
Line(type, role, content, total_tokens, error) ==
  [type |-> type, role |-> role, content |-> content,
   total_tokens |-> total_tokens, error |-> error]

AssistantMsg(content) == Line("message", "assistant", content, 0, "")

Lines ==
  { AssistantMsg(<<TextA>>), AssistantMsg(<<ToolReq>>),
    AssistantMsg(<<TextA, ToolReq, TextB>>),
    AssistantMsg(<<TextEmpty, ToolReqNoCall>>),
    Line("message", "user", <<ToolResp, TextA>>, 0, ""),
    Line("complete", "", <<>>, 2, ""),
    Line("error", "", <<>>, 0, "boom"), Line("error", "", <<>>, 0, ""),
    Line("unparsable", "", <<>>, 0, "") }

ExitCodes == {0, 1, NoCode}

\* ------------------------------------------------------------------ errors
NoError ==
  [message |-> "", isRetryable |-> FALSE, hasArgs |-> FALSE,
   exitCode |-> NoCode, stderr |-> <<>>]

createAPICallError(message, hasArgs) ==
  [message |-> message, isRetryable |-> FALSE, hasArgs |-> hasArgs,
   exitCode |-> NoCode, stderr |-> <<>>]

\* createTimeoutError changed so that the error is not retryable
createTimeoutError_NotRetryable ==
  [message |-> "Goose CLI timed out", isRetryable |-> FALSE, hasArgs |-> TRUE,
   exitCode |-> NoCode, stderr |-> <<>>]

createTimeoutError ==
  [message |-> "Goose CLI timed out", isRetryable |-> TRUE, hasArgs |-> TRUE,
   exitCode |-> NoCode, stderr |-> <<>>]

\* createProcessError changed so that the captured stderr is dropped
createProcessError_NoStderr(code, err) ==
  [message |-> "Goose CLI error: Goose CLI exited with code",
   isRetryable |-> FALSE, hasArgs |-> TRUE, exitCode |-> code,
   stderr |-> <<>>]

createProcessError(code, err) ==
  [message |-> "Goose CLI error: Goose CLI exited with code",
   isRetryable |-> FALSE, hasArgs |-> TRUE, exitCode |-> code,
   stderr |-> err]

AbortedError == createAPICallError("Request aborted", TRUE)

\* the embedded error string taken as it is, with no default
UpstreamMessage_NoDefault(error) == error

\* event.error || 'Unknown error'
UpstreamMessage(error) == IF error = "" THEN "Unknown error" ELSE error

\* ------------------------------------------------------------------- parts
Part(type, id, delta, toolCallId, toolName, tokens) ==
  [type |-> type, id |-> id, delta |-> delta, toolCallId |-> toolCallId,
   toolName |-> toolName, tokens |-> tokens]

TextStart(id) == Part("text-start", id, "", "", "", 0)
TextDelta(id, delta) == Part("text-delta", id, delta, "", "", 0)
TextEnd(id) == Part("text-end", id, "", "", "", 0)
\* toolName is the request's toolCall.value.name (one tool is followed)
ToolCall(toolCallId) == Part("tool-call", NoId, "", toolCallId, "shell", 0)
ToolResult(toolCallId, result) ==
  Part("tool-result", NoId, result, toolCallId, "unknown", 0)
Finish(tokens) == Part("finish", NoId, "stop", "", "", tokens)

\* ------------------------------------------------------- the model instance
\* JavaScript undefined, for an optional string
Undefined == "(undefined)"
\* settings.maxTurns === undefined
NoMaxTurns == -1

\* a string in a condition: undefined and '' are falsy
Truthy(s) == s # Undefined /\ s # ""

\* types.ts: the keys of PROVIDERS
PROVIDERS == {"anthropic", "openai", "google", "xai", "ollama"}

\* properties an object literal inherits from Object.prototype
ObjectPrototypeKeys == {"constructor", "toString"}

\* types.ts: API_KEY_ENV_VARS[provider]; null is written Undefined, an
\* inherited property is a function, which as a property key is its text
API_KEY_ENV_VARS(provider) ==
  IF provider = "anthropic" THEN "ANTHROPIC_API_KEY"
  ELSE IF provider = "openai" THEN "OPENAI_API_KEY"
  ELSE IF provider = "google" THEN "GOOGLE_API_KEY"
  ELSE IF provider = "xai" THEN "XAI_API_KEY"
  ELSE IF provider = "ollama" THEN Undefined
  ELSE IF provider \in ObjectPrototypeKeys THEN "function " \o provider
  ELSE Undefined

\* parseModelId's null: the constructor leaves both fields undefined
NotParsed == [provider |-> Undefined, model |-> Undefined]

\* modelId.indexOf('/'), 0 for -1
IndexOfSlash(modelId) ==
  IF \E i \in 1..Len(modelId) : modelId[i] = "/"
  THEN CHOOSE i \in 1..Len(modelId) :
         /\ modelId[i] = "/"
         /\ \A j \in 1..(i - 1) : modelId[j] # "/"
  ELSE 0

RECURSIVE Text(_)
\* the characters of a model id as one string
Text(chars) == IF chars = <<>> THEN "" ELSE Head(chars) \o Text(Tail(chars))

\* a model id is a sequence of characters; a run of characters other than
\* '/' is written as one element
parseModelId(modelId) ==
  LET slashIndex == IndexOfSlash(modelId)
      providerName == SubSeq(modelId, 1, slashIndex - 1)
      modelName == SubSeq(modelId, slashIndex + 1, Len(modelId))
  IN IF slashIndex = 0 THEN NotParsed
     ELSE IF /\ Len(providerName) = 1
             /\ providerName[1] \in PROVIDERS \cup ObjectPrototypeKeys
             /\ modelName # <<>>
     THEN [provider |-> providerName[1], model |-> Text(modelName)]
     ELSE NotParsed

\* an environment is a function from variable names to values
EmptyEnv == [k \in {} |-> ""]
\* { ...target, ...source }
Spread(target, source) ==
  [k \in DOMAIN target \cup DOMAIN source |->
     IF k \in DOMAIN source THEN source[k] ELSE target[k]]
\* env[name] = value
SetVar(env, name, value) == Spread(env, [k \in {name} |-> value])

buildEnv(s) ==
  LET parsed == parseModelId(s.modelId)
      base == Spread([k \in {"CONFIGURE"} |-> "false"], s.env)
      selected ==
        IF Truthy(parsed.provider) /\ Truthy(parsed.model)
        THEN LET env == SetVar(SetVar(base, "GOOSE_PROVIDER", parsed.provider),
                               "GOOSE_MODEL", parsed.model)
                 apiKeyEnvVar == API_KEY_ENV_VARS(parsed.provider)
             IN IF Truthy(s.apiKey) /\ Truthy(apiKeyEnvVar)
                THEN SetVar(env, apiKeyEnvVar, s.apiKey)
                ELSE env
        ELSE base
  IN IF s.maxTurns # NoMaxTurns
     THEN SetVar(selected, "GOOSE_MAX_TURNS", ToString(s.maxTurns))
     ELSE selected

\* computedEnv before the constructor has run
NotComputed == EmptyEnv

\* buildCLIArgs changed so that the extra arguments come before the session
\* flags
buildCLIArgs_ExtraArgsBeforeSession(s, system, prompt) ==
  <<"run", "--with-builtin", "developer", "--output-format", "stream-json">>
  \o (IF Truthy(system) THEN <<"--system", system>> ELSE <<>>)
  \o <<"-t", prompt>>
  \o s.args
  \o (IF Truthy(s.sessionName) THEN <<"--name", s.sessionName>> ELSE <<>>)
  \o (IF s.resume THEN <<"--resume">> ELSE <<>>)

\* buildCLIArgs changed so that '--resume' is pushed only inside the
\* session-name branch
buildCLIArgs_ResumeNeedsName(s, system, prompt) ==
  <<"run", "--with-builtin", "developer", "--output-format", "stream-json">>
  \o (IF Truthy(system) THEN <<"--system", system>> ELSE <<>>)
  \o <<"-t", prompt>>
  \o (IF Truthy(s.sessionName)
      THEN <<"--name", s.sessionName>>
           \o (IF s.resume THEN <<"--resume">> ELSE <<>>)
      ELSE <<>>)
  \o s.args

buildCLIArgs(s, system, prompt) ==
  <<"run", "--with-builtin", "developer", "--output-format", "stream-json">>
  \o (IF Truthy(system) THEN <<"--system", system>> ELSE <<>>)
  \o <<"-t", prompt>>
  \o (IF Truthy(s.sessionName) THEN <<"--name", s.sessionName>> ELSE <<>>)
  \o (IF s.resume THEN <<"--resume">> ELSE <<>>)
  \o s.args

Settings(modelId, env, apiKey, maxTurns, sessionName, resume, extra) ==
  [modelId |-> modelId, env |-> env, apiKey |-> apiKey, maxTurns |-> maxTurns,
   sessionName |-> sessionName, resume |-> resume, args |-> extra]

DefaultSettings ==
  Settings(<<"goose">>, EmptyEnv, Undefined, NoMaxTurns, Undefined, FALSE, <<>>)

\* ------------------------------------------------------------------- state
VARIABLES
  call,               \* "none" | "generate" | "stream": the call in progress
  abortSignal,        \* "absent" | "clear" | "aborted"
  listening,          \* onAbort is registered on abortSignal
  abortedWhen,        \* when the abort was acted on: "never" | "start" |
                      \* "running" | "exited" | "unspawned"
  child,              \* "none" | "running" | "exited" | "closed" |
                      \* "spawnfail" (launch failed, 'error' pending) |
                      \* "failed" ('error' handled) | "unhandled"
  exitCode,           \* the code the 'close' event carries
  out,                \* stdout lines written and not yet read
  written,            \* number of stdout lines written
  errWritten,         \* number of stderr chunks written
  kills,              \* the signals delivered to the running process, each
                      \* with the place that called child.kill
  stderr,             \* the call's captured stderr
  timeout,            \* doGenerate's timer: "unset" | "armed" | "fired" | "cleared"
  handlers,           \* doGenerate's line/stderr/error/close handlers are attached
  events,             \* doGenerate's decoded events
  promise,            \* doGenerate's outcome
  pc,                 \* the generator: "idle" | "loop" | "waitclose" | "done"
  parts,              \* the parts enqueued on the ReadableStream, in order
  currentTextPartId,
  textStartEmitted,
  nextId,             \* the next id generateId() returns (ids are taken to
                      \* be fresh: a counter)
  consumed,           \* the lines the generator has read, in order
  stream,             \* the ReadableStream: status "open" | "closed" | "errored"
  teardown            \* how often clearTimeout and removeEventListener ran

\* the model instance and the inputs and results of its pure functions
VARIABLES
  settings,           \* the constructor's options: modelId and settings
  computedEnv,        \* the constructor's buildEnv() result
  request,            \* extractPromptParts' result: system and prompt
  args,               \* buildCLIArgs' result
  resultContent,      \* the content list of a tool result
  exported,           \* extractToolResultText's result for resultContent
  calls,              \* streaming calls running concurrently on the instance:
                      \* for each, the locals of its createStreamFromProcess
  callPrompt,         \* the prompt of the call options: extractPromptParts' input
  sessions,           \* the example server's session store: id -> token, resume
  requests,           \* the stream requests the example server has received
  sessionObjects,     \* the session objects the example server has created
  pipe                \* the child's stdout, the readline interface on it and the decoder's input

fnVars ==
  <<settings, computedEnv, request, args, resultContent, exported, calls,
    callPrompt,
    sessions,
    requests,
    sessionObjects,
    pipe>>

vars ==
  <<call, abortSignal, listening, abortedWhen, child, exitCode, out, written,
    errWritten, kills, stderr, timeout, handlers, events, promise, pc, parts,
    currentTextPartId, textStartEmitted, nextId, consumed, stream, teardown,
    fnVars>>

procVars == <<child, exitCode, out, written, errWritten>>
generateVars == <<timeout, handlers, events, promise, teardown>>
translatorVars == <<parts, currentTextPartId, textStartEmitted, nextId, consumed>>
streamVars == <<pc, translatorVars, stream>>
callVars ==
  <<call, abortSignal, listening, abortedWhen, procVars, kills, stderr,
    generateVars, streamVars>>

Pending ==
  [state |-> "pending", error |-> NoError, text |-> "", finishReason |-> "",
   tokens |-> 0]
Rejected(error) ==
  [state |-> "rejected", error |-> error, text |-> "", finishReason |-> "",
   tokens |-> 0]
\* the result: content text, finishReason.unified, usage.outputTokens.total
Fulfilled(text, tokens) ==
  [state |-> "fulfilled", error |-> NoError, text |-> text,
   finishReason |-> "stop", tokens |-> tokens]

\* Settle changed so that a later resolve/reject replaces the outcome
Settle_LastWins(p, outcome) == outcome

\* resolve/reject of a promise: only the first settlement counts
Settle(p, outcome) == IF p.state = "pending" THEN outcome ELSE p

StreamOpen == [status |-> "open", error |-> NoError]
StreamClosed == [status |-> "closed", error |-> NoError]
StreamErrored(error) == [status |-> "errored", error |-> error]

\* child.kill(sig): the signal reaches the process only while it runs
Kill(k, c, by, sig) ==
  IF c = "running" THEN k \cup {[by |-> by, sig |-> sig]} ELSE k

\* clearTimeout(timeout)
ClearTimeout(t) == IF t = "armed" THEN "cleared" ELSE t

NoTeardown == [clears |-> 0, detaches |-> 0]

\* onAbort's clearTimeout(timeout)
Cleared(t) == [t EXCEPT !.clears = @ + 1]

\* cleanup(): clearTimeout, and removeEventListener if a signal was given
Cleanup(t, signal) ==
  [clears |-> t.clears + 1,
   detaches |-> IF signal # "absent" THEN t.detaches + 1 ELSE t.detaches]

\* no call has started
CallInit ==
  /\ call = "none"
  /\ abortSignal \in {"absent", "clear"}
  /\ listening = FALSE
  /\ abortedWhen = "never"
  /\ child = "none"
  /\ exitCode = NoCode
  /\ out = <<>>
  /\ written = 0
  /\ errWritten = 0
  /\ kills = {}
  /\ stderr = <<>>
  /\ timeout = "unset"
  /\ handlers = FALSE
  /\ events = <<>>
  /\ promise = Pending
  /\ pc = "idle"
  /\ parts = <<>>
  /\ currentTextPartId = NoId
  /\ textStartEmitted = FALSE
  /\ nextId = 1
  /\ consumed = <<>>
  /\ stream = StreamOpen
  /\ teardown = NoTeardown

\* the calls are followed for one model instance and one request
FnInit ==
  /\ settings = DefaultSettings
  /\ computedEnv = NotComputed
  /\ request = [system |-> Undefined, prompt |-> "hi"]
  /\ args = <<>>
  /\ resultContent = <<>>
  /\ exported = Undefined
  /\ calls = <<>>
  /\ pipe = <<>>
  /\ sessionObjects = <<>>
  /\ requests = <<>>
  /\ sessions = <<>>
  /\ callPrompt = <<>>

Init == CallInit /\ FnInit

\* ------------------------------------------------- the stream translator
\* the translator's local state while one line is handled
Translator(ps, cur, started, nid) ==
  [parts |-> ps, currentTextPartId |-> cur, textStartEmitted |-> started,
   nextId |-> nid]

\* the loop body changed so that every text segment gets the same id
AssistantItem_SameIdForEverySegment(c, st) ==
  IF c.type = "text" /\ c.text # ""
  THEN LET s1 == IF ~st.textStartEmitted
                 THEN Translator(Append(st.parts, TextStart(1)), 1, TRUE,
                                 st.nextId)
                 ELSE st
       IN IF s1.currentTextPartId # NoId
          THEN [s1 EXCEPT !.parts =
                  Append(@, TextDelta(s1.currentTextPartId, c.text))]
          ELSE s1
  ELSE IF c.type = "toolRequest"
  THEN LET s1 == [st EXCEPT !.textStartEmitted = FALSE,
                            !.currentTextPartId = NoId]
       IN IF c.hasToolCall
          THEN [s1 EXCEPT !.parts = Append(@, ToolCall(c.id))]
          ELSE s1
  ELSE st

\* one item of an assistant message (the body of the loop over msg.content)
AssistantItem(c, st) ==
  IF c.type = "text" /\ c.text # ""
  THEN LET s1 == IF ~st.textStartEmitted
                 THEN Translator(Append(st.parts, TextStart(st.nextId)),
                                 st.nextId, TRUE, st.nextId + 1)
                 ELSE st
       IN IF s1.currentTextPartId # NoId
          THEN [s1 EXCEPT !.parts =
                  Append(@, TextDelta(s1.currentTextPartId, c.text))]
          ELSE s1
  ELSE IF c.type = "toolRequest"
  THEN LET s1 == [st EXCEPT !.textStartEmitted = FALSE,
                            !.currentTextPartId = NoId]
       IN IF c.hasToolCall
          THEN [s1 EXCEPT !.parts = Append(@, ToolCall(c.id))]
          ELSE s1
  ELSE st

\* the loop over msg.content changed so that the items are handled from the
\* last to the first
RECURSIVE AssistantContent_LastItemFirst(_, _)
AssistantContent_LastItemFirst(content, st) ==
  IF content = <<>> THEN st
  ELSE AssistantItem(Head(content),
                     AssistantContent_LastItemFirst(Tail(content), st))

RECURSIVE AssistantContent(_, _)
AssistantContent(content, st) ==
  IF content = <<>> THEN st
  ELSE AssistantContent(Tail(content), AssistantItem(Head(content), st))

\* JSON.stringify(c) of a content item
Stringify(c) == "{" \o c.type \o ":" \o c.text \o "}"

\* the audience filter of the tool-result branch changed so that every item
\* passes
AudienceIncludesUser_NoFilter(c) == TRUE

\* the audience filter of the tool-result branch
AudienceIncludesUser(c) == ~c.annotated \/ "user" \in c.audience

\* the map callback of the tool-result branch
MapItem(c) ==
  IF c.type = "text" /\ c.text # "" THEN c.text
  ELSE IF c.type = "resource" /\ c.text # "" THEN c.text
  ELSE Stringify(c)

\* result.content.filter(...).map(...)
RECURSIVE FilterContent(_)
FilterContent(content) ==
  IF content = <<>> THEN <<>>
  ELSE IF AudienceIncludesUser(Head(content))
       THEN <<MapItem(Head(content))>> \o FilterContent(Tail(content))
       ELSE FilterContent(Tail(content))

\* Array.prototype.join('\n')
RECURSIVE Join(_)
Join(texts) ==
  IF texts = <<>> THEN ""
  ELSE IF Len(texts) = 1 THEN Head(texts)
  ELSE Head(texts) \o "\n" \o Join(Tail(texts))

ResultText(content) == Join(FilterContent(content))

\* ----------------------------------- the session export's tool-result text
\* shouldIncludeForAudience changed so that an item with no audience
\* annotation is left out
shouldIncludeForAudience_NeedsAnnotation(item, audience) ==
  item.annotated /\ audience \in item.audience

shouldIncludeForAudience(item, audience) ==
  IF ~item.annotated THEN TRUE ELSE audience \in item.audience

\* extractToolResultText's map callback
ExportMapItem(c) ==
  IF c.type = "text" /\ c.text # "" THEN c.text
  ELSE IF c.type = "resource" /\ c.text # "" THEN c.text
  ELSE Stringify(c)

RECURSIVE ExportFilterMap(_, _)
ExportFilterMap(list, audience) ==
  IF list = <<>> THEN <<>>
  ELSE IF shouldIncludeForAudience(Head(list), audience)
       THEN <<ExportMapItem(Head(list))>> \o ExportFilterMap(Tail(list), audience)
       ELSE ExportFilterMap(Tail(list), audience)

extractToolResultText(list, audience) == Join(ExportFilterMap(list, audience))

\* one item of a user message
UserItem(c, st) ==
  IF c.type = "toolResponse"
  THEN [st EXCEPT !.parts = Append(@, ToolResult(c.id, ResultText(c.result)))]
  ELSE st

RECURSIVE UserContent(_, _)
UserContent(content, st) ==
  IF content = <<>> THEN st
  ELSE UserContent(Tail(content), UserItem(Head(content), st))

\* the complete branch changed so that the finish part reports no tokens
OnComplete_NoTokens(event, st) ==
  LET closed == IF st.currentTextPartId # NoId /\ st.textStartEmitted
                THEN Append(st.parts, TextEnd(st.currentTextPartId))
                ELSE st.parts
  IN [st EXCEPT !.parts = Append(closed, Finish(0))]

\* the complete branch
OnComplete(event, st) ==
  LET closed == IF st.currentTextPartId # NoId /\ st.textStartEmitted
                THEN Append(st.parts, TextEnd(st.currentTextPartId))
                ELSE st.parts
  IN [st EXCEPT !.parts = Append(closed, Finish(event.total_tokens))]

\* the branches on event.type for a decoded event other than an error event
TranslateEvent(event, st) ==
  IF event.type = "message" /\ event.role = "assistant"
  THEN AssistantContent(event.content, st)
  ELSE IF event.type = "message" /\ event.role = "user"
  THEN UserContent(event.content, st)
  ELSE IF event.type = "complete" THEN OnComplete(event, st)
  ELSE st

\* Translate changed so that a line JSON.parse rejects resets the text
\* segment state
Translate_ParseFailureResets(line, st) ==
  IF line.type = "unparsable"
  THEN Translator(st.parts, NoId, FALSE, st.nextId)
  ELSE TranslateEvent(line, st)

\* the body of `for await (const line of rl)` for a line that raises no
\* call-level error: a line JSON.parse rejects is logged and skipped
Translate(line, st) ==
  IF line.type = "unparsable" THEN st ELSE TranslateEvent(line, st)

\* -------------------------------------------------- eventsToGenerateResult
\* the loop over msg.content changed so that it stops after the first item
AssistantText_FirstItemOnly(content) ==
  IF content = <<>> THEN ""
  ELSE IF Head(content).type = "text" THEN Head(content).text ELSE ""

RECURSIVE AssistantText(_)
AssistantText(content) ==
  IF content = <<>> THEN ""
  ELSE (IF Head(content).type = "text" THEN Head(content).text ELSE "")
       \o AssistantText(Tail(content))

\* the loop over events: acc is the promise outcome built so far
RECURSIVE FoldEvents(_, _)
FoldEvents(evs, acc) ==
  IF evs = <<>> THEN acc
  ELSE LET e == Head(evs)
       IN IF e.type = "error"
          THEN Rejected(createAPICallError(UpstreamMessage(e.error), FALSE))
          ELSE IF e.type = "message" /\ e.role = "assistant"
          THEN FoldEvents(Tail(evs),
                          Fulfilled(acc.text \o AssistantText(e.content), acc.tokens))
          ELSE IF e.type = "complete"
          THEN FoldEvents(Tail(evs), Fulfilled(acc.text, e.total_tokens))
          ELSE FoldEvents(Tail(evs), acc)

\* eventsToGenerateResult changed so that error events are skipped
eventsToGenerateResult_IgnoreErrors(evs) ==
  FoldEvents(SelectSeq(evs, LAMBDA e : e.type # "error"), Fulfilled("", 0))

eventsToGenerateResult(evs) == FoldEvents(evs, Fulfilled("", 0))

\* ------------------------------------------------------------ the caller
\* doGenerate up to the first suspension: spawn, arm the timer, check the
\* signal, register the handlers
doGenerate(spawnOk) ==
  /\ call = "none"
  /\ call' = "generate"
  /\ child' = IF spawnOk THEN "running" ELSE "spawnfail"
  /\ IF abortSignal = "aborted"
     THEN /\ timeout' = "cleared"
          /\ teardown' = Cleared(teardown)
          /\ kills' = Kill(kills, child', "onAbort", "SIGTERM")
          /\ promise' = Rejected(AbortedError)
          /\ abortedWhen' = "start"
          /\ UNCHANGED <<listening, handlers>>
     ELSE /\ timeout' = "armed"
          /\ listening' = (abortSignal = "clear")
          /\ handlers' = TRUE
          /\ UNCHANGED <<kills, promise, abortedWhen, teardown>>
  /\ UNCHANGED <<abortSignal, exitCode, out, written, errWritten, stderr,
                 events, streamVars>>
  /\ UNCHANGED fnVars

\* doStream changed so that the abort check kills the process but does not
\* throw: the generator goes on to read lines
doStream_KillWithoutThrow(spawnOk) ==
  /\ call = "none"
  /\ call' = "stream"
  /\ child' = IF spawnOk THEN "running" ELSE "spawnfail"
  /\ IF abortSignal = "aborted"
     THEN /\ kills' = Kill(kills, child', "abortCheck", "SIGTERM")
          /\ abortedWhen' = "start"
          /\ UNCHANGED listening
     ELSE /\ listening' = (abortSignal = "clear")
          /\ UNCHANGED <<kills, abortedWhen>>
  /\ pc' = "loop"
  /\ UNCHANGED <<abortSignal, exitCode, out, written, errWritten, stderr,
                 generateVars, translatorVars, stream>>
  /\ UNCHANGED fnVars

\* doStream: the generator runs to its first await inside the stream's
\* start()
doStream(spawnOk) ==
  /\ call = "none"
  /\ call' = "stream"
  /\ child' = IF spawnOk THEN "running" ELSE "spawnfail"
  /\ IF abortSignal = "aborted"
     THEN /\ kills' = Kill(kills, child', "abortCheck", "SIGTERM")
          /\ stream' = StreamErrored(AbortedError)
          /\ pc' = "done"
          /\ abortedWhen' = "start"
          /\ UNCHANGED listening
     ELSE /\ listening' = (abortSignal = "clear")
          /\ pc' = "loop"
          /\ UNCHANGED <<kills, stream, abortedWhen>>
  /\ UNCHANGED <<abortSignal, exitCode, out, written, errWritten, stderr,
                 generateVars, translatorVars>>
  /\ UNCHANGED fnVars

\* the caller triggers the signal; a registered onAbort runs
Abort ==
  /\ abortSignal = "clear"
  /\ abortSignal' = "aborted"
  /\ listening' = FALSE
  /\ IF listening
     THEN /\ kills' = Kill(kills, child, "onAbort", "SIGTERM")
          /\ abortedWhen' = IF child = "running" THEN "running"
                            ELSE IF child = "spawnfail" THEN "unspawned"
                            ELSE "exited"
          /\ IF call = "generate"
             THEN /\ timeout' = ClearTimeout(timeout)
                  /\ teardown' = Cleared(teardown)
                  /\ promise' = Settle(promise, Rejected(AbortedError))
             ELSE UNCHANGED <<timeout, promise, teardown>>
     ELSE UNCHANGED <<kills, abortedWhen, timeout, promise, teardown>>
  /\ UNCHANGED <<call, procVars, stderr, handlers, events, streamVars>>
  /\ UNCHANGED fnVars

\* ---------------------------------------------------------- the subprocess
\* the process writes a line; readline buffers it for the generator (after
\* the generator has finished nothing reads the buffer)
ProcWrite(line) ==
  /\ call = "stream"
  /\ child = "running"
  /\ written < MaxLines
  /\ written' = written + 1
  /\ out' = IF pc = "loop" THEN Append(out, line) ELSE out
  /\ UNCHANGED <<call, abortSignal, listening, abortedWhen, child, exitCode,
                 errWritten, kills, stderr, generateVars, streamVars>>
  /\ UNCHANGED fnVars

\* child.stderr.on('data')
ProcStderr ==
  /\ child = "running"
  /\ errWritten < MaxStderr
  /\ errWritten' = errWritten + 1
  /\ stderr' = IF call = "stream" \/ handlers
               THEN Append(stderr, "boom") ELSE stderr
  /\ UNCHANGED <<call, abortSignal, listening, abortedWhen, child, exitCode,
                 out, written, kills, generateVars, streamVars>>
  /\ UNCHANGED fnVars

\* the process ends, with an exit code or by a signal (code null)
ProcExit(code) ==
  /\ child = "running"
  /\ child' = "exited"
  /\ exitCode' = code
  /\ UNCHANGED <<call, abortSignal, listening, abortedWhen, out, written,
                 errWritten, kills, stderr, generateVars, streamVars>>
  /\ UNCHANGED fnVars

\* the 'close' event with no listener registered for it
CloseUnheard ==
  /\ child = "exited"
  /\ \/ call = "generate" /\ ~handlers
     \/ call = "stream" /\ pc # "waitclose"
  /\ child' = "closed"
  /\ UNCHANGED <<call, abortSignal, listening, abortedWhen, exitCode, out,
                 written, errWritten, kills, stderr, generateVars, streamVars>>
  /\ UNCHANGED fnVars

\* the 'error' event of a launch that failed, with no listener registered
\* for it (the streaming call registers none): the event is thrown as an
\* uncaught exception
ErrorUnheard ==
  /\ child = "spawnfail"
  /\ \/ call = "generate" /\ ~handlers
     \/ call = "stream"
  /\ child' = "unhandled"
  /\ UNCHANGED <<call, abortSignal, listening, abortedWhen, exitCode, out,
                 written, errWritten, kills, stderr, generateVars, streamVars>>
  /\ UNCHANGED fnVars

\* ------------------------------------------ spawnGooseProcess's callbacks
\* the setTimeout callback
Timeout ==
  /\ call = "generate"
  /\ timeout = "armed"
  /\ timeout' = "fired"
  /\ kills' = Kill(kills, child, "timeout", "SIGTERM")
  /\ promise' = Settle(promise, Rejected(createTimeoutError))
  /\ UNCHANGED <<call, abortSignal, listening, abortedWhen, procVars, stderr,
                 handlers, events, teardown, streamVars>>
  /\ UNCHANGED fnVars

\* rl.on('line'): the process writes a line and the handler decodes it
GenLine(line) ==
  /\ call = "generate"
  /\ handlers
  /\ child = "running"
  /\ written < MaxLines
  /\ written' = written + 1
  /\ events' = IF line.type = "unparsable" THEN events ELSE Append(events, line)
  /\ UNCHANGED <<call, abortSignal, listening, abortedWhen, child, exitCode,
                 out, errWritten, kills, stderr, timeout, handlers, promise,
                 teardown, streamVars>>
  /\ UNCHANGED fnVars

\* child.on('error'): the binary could not be launched
ChildError ==
  /\ call = "generate"
  /\ handlers
  /\ child = "spawnfail"
  /\ child' = "failed"
  /\ timeout' = ClearTimeout(timeout)
  /\ teardown' = Cleanup(teardown, abortSignal)
  /\ listening' = FALSE
  /\ promise' =
       Settle(promise, Rejected(createAPICallError("Failed to spawn Goose CLI", TRUE)))
  /\ UNCHANGED <<call, abortSignal, abortedWhen, exitCode, out, written,
                 errWritten, kills, stderr, handlers, events, streamVars>>
  /\ UNCHANGED fnVars

\* child.on('close') followed by doGenerate's eventsToGenerateResult
GenClose ==
  /\ call = "generate"
  /\ handlers
  /\ child = "exited"
  /\ child' = "closed"
  /\ timeout' = ClearTimeout(timeout)
  /\ teardown' = Cleanup(teardown, abortSignal)
  /\ listening' = FALSE
  /\ promise' =
       Settle(promise,
              IF exitCode # 0 /\ exitCode # NoCode
              THEN Rejected(createProcessError(exitCode, stderr))
              ELSE eventsToGenerateResult(events))
  /\ UNCHANGED <<call, abortSignal, abortedWhen, exitCode, out, written,
                 errWritten, kills, stderr, handlers, events, streamVars>>
  /\ UNCHANGED fnVars

\* ------------------------------------------------ createStreamFromProcess
\* one iteration of `for await (const line of rl)`: the parts of the line are
\* enqueued; an error event ends the generator through the outer catch
StreamLine ==
  /\ call = "stream"
  /\ pc = "loop"
  /\ out # <<>>
  /\ out' = Tail(out)
  /\ consumed' = Append(consumed, Head(out))
  /\ IF Head(out).type = "error"
     THEN /\ kills' = Kill(kills, child, "catch", "SIGTERM")
          /\ listening' = FALSE
          /\ pc' = "done"
          /\ stream' = StreamErrored(
                 createAPICallError(UpstreamMessage(Head(out).error), TRUE))
          /\ UNCHANGED <<parts, currentTextPartId, textStartEmitted, nextId>>
     ELSE LET st == Translate(Head(out),
                      Translator(parts, currentTextPartId, textStartEmitted, nextId))
          IN /\ parts' = st.parts
             /\ currentTextPartId' = st.currentTextPartId
             /\ textStartEmitted' = st.textStartEmitted
             /\ nextId' = st.nextId
             /\ UNCHANGED <<kills, listening, pc, stream>>
  /\ UNCHANGED <<call, abortSignal, abortedWhen, child, exitCode, written,
                 errWritten, stderr, generateVars>>
  /\ UNCHANGED fnVars

\* the loop ends when stdout has ended and every line was read; the
\* generator then registers its 'close' listener
StreamEnd ==
  /\ call = "stream"
  /\ pc = "loop"
  /\ out = <<>>
  /\ child \in {"exited", "closed", "unhandled"}
  /\ pc' = "waitclose"
  /\ UNCHANGED <<call, abortSignal, listening, abortedWhen, procVars, kills,
                 stderr, generateVars, translatorVars, stream>>
  /\ UNCHANGED fnVars

\* the 'close' listener resolves with `code || 0`; the generator finishes
StreamClose ==
  /\ call = "stream"
  /\ pc = "waitclose"
  /\ child = "exited"
  /\ child' = "closed"
  /\ listening' = FALSE
  /\ pc' = "done"
  /\ LET code == IF exitCode = NoCode THEN 0 ELSE exitCode
     IN stream' = IF code # 0
                  THEN StreamErrored(createProcessError(code, stderr))
                  ELSE StreamClosed
  /\ UNCHANGED <<call, abortSignal, abortedWhen, exitCode, out, written,
                 errWritten, kills, stderr, generateVars, translatorVars>>
  /\ UNCHANGED fnVars

\* --------------------------------------------------------- specification
Next ==
  \/ \E spawnOk \in BOOLEAN : doGenerate(spawnOk)
  \/ \E spawnOk \in BOOLEAN : doStream(spawnOk)
  \/ Abort
  \/ \E line \in Lines : ProcWrite(line)
  \/ ProcStderr
  \/ \E code \in ExitCodes : ProcExit(code)
  \/ CloseUnheard
  \/ ErrorUnheard
  \/ Timeout
  \/ \E line \in Lines : GenLine(line)
  \/ ChildError
  \/ GenClose
  \/ StreamLine
  \/ StreamEnd
  \/ StreamClose

Spec == Init /\ [][Next]_vars

\* ------------------------------------------- reading the emitted sequence
StreamEnded == stream.status # "open"

IsFinish(p) == p.type = "finish"
IsComplete(l) == l.type = "complete"

\* a text segment opened before position j of ps is still open there
OpenBefore(ps, j) ==
  \E i \in 1..(j - 1) :
    /\ ps[i].type = "text-start"
    /\ \A k \in (i + 1)..(j - 1) : ps[k] # TextEnd(ps[i].id)

\* the positions of the text-end parts that carry id
EndsOf(ps, id) == {k \in 1..Len(ps) : ps[k] = TextEnd(id)}

\* C1: the emitted sequence never has two text-start parts without a
\* text-end between them, and no tool-call part is emitted while a text
\* segment is open (a text-end for the segment has to come first).
C1_SegmentsClosedBeforeNext ==
  /\ \A i, j \in 1..Len(parts) :
       (i < j /\ parts[i].type = "text-start" /\ parts[j].type = "text-start")
         => \E k \in (i + 1)..(j - 1) : parts[k].type = "text-end"
  /\ \A j \in 1..Len(parts) :
       parts[j].type = "tool-call" => ~OpenBefore(parts, j)

\* C2: every text-delta is emitted inside an open segment of its id: a
\* text-start with that id precedes it and no text-end with that id lies
\* between the two.
C2_DeltaInsideOpenSegment ==
  \A j \in 1..Len(parts) :
    parts[j].type = "text-delta" =>
      \E i \in 1..(j - 1) :
        /\ parts[i] = TextStart(parts[j].id)
        /\ \A k \in (i + 1)..(j - 1) : parts[k] # TextEnd(parts[j].id)

\* C3: every segment opened by a text-start is closed by exactly one
\* text-end with its id before the stream ends, however the stream ends.
C3_EverySegmentClosedOnce ==
  \A i \in 1..Len(parts) :
    parts[i].type = "text-start" =>
      /\ Cardinality(EndsOf(parts, parts[i].id)) <= 1
      /\ \A k \in EndsOf(parts, parts[i].id) : k > i
      /\ StreamEnded => Cardinality(EndsOf(parts, parts[i].id)) = 1

\* C4: a complete event that arrives while a text segment is open has the
\* segment's text-end emitted before its finish part, and every finish part
\* carries the reason 'stop' and the token count of its complete event.
C4_CompleteClosesOpenSegment ==
  LET finishes == SelectSeq(parts, IsFinish)
      completes == SelectSeq(consumed, IsComplete)
  IN /\ \A j \in 1..Len(parts) :
          parts[j].type = "finish" => ~OpenBefore(parts, j)
     /\ Len(finishes) = Len(completes)
     /\ \A n \in 1..Len(finishes) :
          finishes[n] = Finish(completes[n].total_tokens)

\* C5: a stream that has ended was terminated by exactly one of a finish
\* part and an error: never by neither, never by both, never by two.
C5_ExactlyOneTerminator ==
  (call = "stream" /\ StreamEnded) =>
    Len(SelectSeq(parts, IsFinish))
      + (IF stream.status = "errored" THEN 1 ELSE 0) = 1

\* C6: no part of any kind follows a finish part.
C6_NothingAfterFinish ==
  \A j \in 1..(Len(parts) - 1) : parts[j].type # "finish"

\* the stream call took an error path: an error event was read, the process
\* closed with a non-zero code while the generator waited for it, or the
\* abort signal was acted on
ErrorEventRead == \E n \in 1..Len(consumed) : consumed[n].type = "error"
NonZeroExitSeen ==
  pc = "done" /\ child = "closed" /\ exitCode # 0 /\ exitCode # NoCode
    /\ ~ErrorEventRead /\ abortedWhen # "start"
AbortActedOn == abortedWhen \in {"start", "running"}

\* C7: on every error path (error event, non-zero exit, abort) the stream
\* ends with an error, and no part is emitted once it has.
C7_ErrorPathEndsInError ==
  [][ /\ (call' = "stream" /\ stream'.status # "open"
            /\ (ErrorEventRead' \/ NonZeroExitSeen' \/ AbortActedOn'))
         => stream'.status = "errored"
      /\ stream.status = "errored" => (parts' = parts /\ stream' = stream) ]_vars

\* C8: a call that starts with the signal already triggered spawns no
\* subprocess.
C8_NoSpawnWhenAlreadyAborted ==
  abortedWhen = "start" => child \in {"none", "spawnfail", "failed", "unhandled"}

\* C9: a call that starts with the signal already triggered fails with the
\* non-retryable 'Request aborted' error: doGenerate's promise is rejected
\* with it and never fulfilled, the stream is errored with it and carries no
\* part, whatever the subprocess does afterwards.
C9_AlreadyAbortedFails ==
  abortedWhen = "start" =>
    /\ call = "generate" =>
         /\ promise.state = "rejected"
         /\ promise.error.message = "Request aborted"
         /\ ~promise.error.isRetryable
    /\ call = "stream" =>
         /\ stream.status = "errored"
         /\ stream.error.message = "Request aborted"
         /\ ~stream.error.isRetryable
         /\ parts = <<>>

\* C9 witness: a stream call started after the abort, whose process has
\* since written output and closed
C9_Witness ==
  /\ call = "stream"
  /\ abortedWhen = "start"
  /\ written > 0
  /\ child = "closed"

C11_StreamAbortFailsAborted ==
  (call = "stream" /\ abortedWhen = "running" /\ StreamEnded) =>
    /\ stream.status = "errored"
    /\ ~ErrorEventRead => stream.error.message = "Request aborted"

\* the error a call has failed with, NoError while it has not failed
CallError ==
  IF call = "generate" /\ promise.state = "rejected" THEN promise.error
  ELSE IF call = "stream" /\ stream.status = "errored" THEN stream.error
  ELSE NoError

\* C12: when a call has failed because of cancellation, timeout or an
\* upstream error, the subprocess is no longer alive.
C12_ProcessGoneWhenCallFails ==
  CallError.message \in {"Request aborted", "Goose CLI timed out", "boom",
                         "Unknown error"}
    => child # "running"

\* C13: every call, non-streaming and streaming, has its timer armed from the
\* moment the subprocess is spawned, and a call whose timer has expired has
\* failed with the retryable timeout error.
C13_TimerArmedForEveryCall ==
  /\ (call # "none" /\ child = "running") => timeout # "unset"
  /\ timeout = "fired" =>
       /\ CallError.message = "Goose CLI timed out"
       /\ CallError.isRetryable


\* the error is the ProcessError of the process's exit code, carrying every
\* stderr chunk the process wrote
IsProcessErrorOfExit(e) ==
  /\ e.message = "Goose CLI error: Goose CLI exited with code"
  /\ ~e.isRetryable
  /\ e.exitCode = exitCode
  /\ e.stderr = [n \in 1..errWritten |-> "boom"]

HasErrorEvent(evs) == \E n \in 1..Len(evs) : evs[n].type = "error"

\* the call ended on the process's 'close' event: no timeout, abort or
\* error event ended it earlier
GenerateEndedOnClose ==
  /\ call = "generate"
  /\ handlers
  /\ child = "closed"
  /\ timeout # "fired"
  /\ abortedWhen = "never"

StreamEndedOnClose ==
  /\ call = "stream"
  /\ child = "closed"
  /\ pc = "done"
  /\ abortedWhen # "start"
  /\ ~ErrorEventRead

IsSpawnError(e) ==
  /\ e.message = "Failed to spawn Goose CLI"
  /\ ~e.isRetryable
  /\ e.hasArgs

\* C15: when the binary cannot be launched, once the launch failure has been
\* reported by the child's 'error' event the call has failed with the
\* non-retryable SpawnError carrying the binary path and arguments, in the
\* streaming and in the non-streaming variant (a call that was already
\* aborted at its start keeps its 'Request aborted' error).
C15_SpawnFailureFailsWithSpawnError ==
  (child \in {"failed", "unhandled"} /\ abortedWhen \notin {"start", "unspawned"}
     /\ timeout # "fired") =>
    IsSpawnError(CallError)


\* C16: in a streaming call, the step that reads an error event ends the
\* call at once: the stream fails with the non-retryable error carrying the
\* event's error string ('Unknown error' when it is empty), the running
\* process is sent SIGTERM, the abort listener is removed and the generator
\* is done; from then on no line is read and no part is added.
C16_ErrorEventEndsStream ==
  [][ /\ (~ErrorEventRead /\ ErrorEventRead') =>
           LET e == consumed'[Len(consumed')].error
           IN /\ stream'.status = "errored"
              /\ stream'.error.message = (IF e = "" THEN "Unknown error" ELSE e)
              /\ ~stream'.error.isRetryable
              /\ ~listening'
              /\ pc' = "done"
              /\ child = "running" =>
                   [by |-> "catch", sig |-> "SIGTERM"] \in kills'
      /\ ErrorEventRead =>
           UNCHANGED <<parts, consumed, stream, pc, currentTextPartId,
                       textStartEmitted>>
    ]_vars

C16_Witness ==
  /\ ErrorEventRead
  /\ stream.status = "errored"
  /\ stream.error.message = "Unknown error"
  /\ [by |-> "catch", sig |-> "SIGTERM"] \in kills
  /\ parts # <<>>
  /\ written > Len(consumed)


FirstErrorEvent(evs) ==
  evs[CHOOSE n \in 1..Len(evs) :
        /\ evs[n].type = "error"
        /\ \A m \in 1..(n - 1) : evs[m].type # "error"]

\* C17: in a non-streaming call whose process output contains an error
\* event, once the process has closed (with no timeout or abort before) the
\* call has failed with the non-retryable error carrying that event's error
\* string, whatever the exit code and whatever events come before or after.
C17_ErrorEventFailsGenerate ==
  (GenerateEndedOnClose /\ HasErrorEvent(events)) =>
    /\ promise.state = "rejected"
    /\ promise.error.message =
         (IF FirstErrorEvent(events).error = "" THEN "Unknown error"
          ELSE FirstErrorEvent(events).error)
    /\ ~promise.error.isRetryable


\* C18: a non-streaming call never returns a result when the events decoded
\* from the process output contain an error event: the promise is never
\* fulfilled, and once the process has closed it is rejected, whatever the
\* exit code, the other events, and the timer and the abort signal did.
C18_NoResultWithErrorEvent ==
  (call = "generate" /\ HasErrorEvent(events)) =>
    /\ promise.state # "fulfilled"
    /\ child = "closed" => promise.state = "rejected"

C18_Witness ==
  /\ call = "generate"
  /\ HasErrorEvent(events)
  /\ Len(events) > 1
  /\ child = "closed"
  /\ exitCode = 0
  /\ promise.state = "rejected"
  /\ promise.error.message = "boom"


IsUnparsable(l) == l.type = "unparsable"

\* the translator after the events in evs, read in order up to the first
\* error event
RECURSIVE TranslateEvents(_, _)
TranslateEvents(evs, st) ==
  IF evs = <<>> \/ Head(evs).type = "error" THEN st
  ELSE TranslateEvents(Tail(evs), TranslateEvent(Head(evs), st))

\* C19: unparsable lines are never fatal. In a streaming call the step that
\* reads an unparsable line adds no part, leaves the text segment state, the
\* stream and the generator's position as they were, and after every step
\* the parts emitted are those of the parsable lines read so far, as if the
\* unparsable lines had not been there. In a non-streaming call a line that
\* arrives decodes to at most one event and changes neither the outcome of
\* the call, nor the process, nor the handlers.
C19_UnparsableLinesAreSkipped ==
  [][ /\ (call = "stream" /\ Len(consumed') > Len(consumed)
            /\ IsUnparsable(consumed'[Len(consumed')])) =>
           UNCHANGED <<parts, currentTextPartId, textStartEmitted, nextId,
                       stream, pc, kills, listening>>
      /\ call' = "stream" =>
           LET st == TranslateEvents(
                       SelectSeq(consumed', LAMBDA l : ~IsUnparsable(l)),
                       Translator(<<>>, NoId, FALSE, 1))
           IN /\ parts' = st.parts
              /\ currentTextPartId' = st.currentTextPartId
              /\ textStartEmitted' = st.textStartEmitted
      /\ (call = "generate" /\ written' > written) =>
           /\ \/ events' = events
              \/ \E l \in Lines : ~IsUnparsable(l) /\ events' = Append(events, l)
           /\ UNCHANGED <<promise, child, handlers, timeout, kills, listening>>
    ]_vars

C19_Witness ==
  /\ call = "stream"
  /\ Len(consumed) = 3
  /\ consumed[1] = AssistantMsg(<<TextA>>)
  /\ IsUnparsable(consumed[2])
  /\ consumed[3] = AssistantMsg(<<TextA>>)
  /\ Len(SelectSeq(parts, LAMBDA p : p.type = "text-delta")) = 2
  /\ stream.status = "closed"


\* the messages of the call-level errors: spawn failure, abort, process
\* error, upstream error (the event's string or its default), timeout
ErrorMessages ==
  {"Failed to spawn Goose CLI", "Request aborted",
   "Goose CLI error: Goose CLI exited with code", "boom", "Unknown error",
   "Goose CLI timed out"}

\* C20: of the call-level errors, exactly the timeout error is retryable:
\* whenever a call has failed, its error is one of the known kinds and it is
\* retryable if and only if it is the timeout error.
C20_OnlyTimeoutIsRetryable ==
  CallError # NoError =>
    /\ CallError.message \in ErrorMessages
    /\ CallError.isRetryable <=> CallError.message = "Goose CLI timed out"

C20_Witness ==
  /\ call = "generate"
  /\ timeout = "fired"
  /\ promise.state = "rejected"
  /\ promise.error.message = "Goose CLI timed out"
  /\ promise.error.isRetryable


\* C21: every call-level error carries the binary path and the full argument
\* list of the failing invocation, on every error path of both call
\* variants, and a process error carries the exit code and the stderr text
\* as well.
C21_ErrorsCarryInvocation ==
  CallError # NoError =>
    /\ CallError.hasArgs
    /\ CallError.message = "Goose CLI error: Goose CLI exited with code" =>
         IsProcessErrorOfExit(CallError)


\* ------------------------------------------------------------ buildCLIArgs
SeqsUpTo(S, n) == UNION {[1..k -> S] : k \in 0..n}

\* the extra arguments a caller passes in settings.args
ExtraArgs == {"--debug", "--resume"}

\* every session name, resume directive and extra argument list, and every
\* system prompt and prompt
ArgsInit ==
  /\ CallInit
  /\ abortSignal = "absent"
  /\ settings \in
       {Settings(<<"goose">>, EmptyEnv, Undefined, NoMaxTurns, name, resume, extra) :
          name \in {Undefined, "", "s1"}, resume \in BOOLEAN,
          extra \in SeqsUpTo(ExtraArgs, MaxArgs)}
  /\ request \in [system : {Undefined, "", "be brief"}, prompt : {"hi", ""}]
  /\ computedEnv = NotComputed
  /\ args = <<>>
  /\ resultContent = <<>>
  /\ exported = Undefined
  /\ calls = <<>>
  /\ pipe = <<>>
  /\ sessionObjects = <<>>
  /\ requests = <<>>
  /\ sessions = <<>>
  /\ callPrompt = <<>>

\* doGenerate / doStream: const args = this.buildCLIArgs(system, prompt)
BuildArgs ==
  /\ args = <<>>
  /\ args' = buildCLIArgs(settings, request.system, request.prompt)
  /\ UNCHANGED <<callVars, settings, computedEnv, request, resultContent,
                 exported, calls,
                 callPrompt,
                 sessions,
                 requests,
                 sessionObjects,
                 pipe>>

ArgsSpec == ArgsInit /\ [][BuildArgs]_vars

Occurrences(seq, x) == Cardinality({i \in 1..Len(seq) : seq[i] = x})

\* C23: buildCLIArgs emits the standalone '--resume' flag exactly when the
\* resume directive is true, whatever the session name is: beyond the
\* occurrences the caller wrote into the extra arguments, the list holds one
\* '--resume' when resume is true, also without a session name, and none
\* when it is false.
C23_ResumeFlagFollowsDirective ==
  args # <<>> =>
    Occurrences(args, "--resume") =
      Occurrences(settings.args, "--resume") + (IF settings.resume THEN 1 ELSE 0)

C23_Witness ==
  /\ args # <<>>
  /\ settings.resume
  /\ ~Truthy(settings.sessionName)
  /\ settings.args = <<>>
  /\ Occurrences(args, "--resume") = 1


\* ------------------------------------------------------- tool-result text
\* the items of a tool result's content list: unannotated, for the assistant
\* only, for both audiences, with an empty audience array, with an empty
\* text, a resource and an item of another type
ResultItems ==
  { ResultItem("text", "r", FALSE, {}),
    ResultItem("text", "s", TRUE, {"assistant"}),
    ResultItem("text", "u", TRUE, {"user", "assistant"}),
    ResultItem("text", "e", TRUE, {}),
    ResultItem("text", "", FALSE, {}),
    ResultItem("resource", "q", TRUE, {"user"}),
    ResultItem("image", "", FALSE, {}) }

ToolResponseLine(list) ==
  Line("message", "user", <<Item("toolResponse", "", "t1", FALSE, list)>>, 0, "")

\* a streaming call whose process has written one tool response, with every
\* content list
ToolTextInit ==
  /\ resultContent \in SeqsUpTo(ResultItems, MaxItems)
  /\ call = "stream"
  /\ abortSignal = "absent"
  /\ listening = FALSE
  /\ abortedWhen = "never"
  /\ child = "running"
  /\ exitCode = NoCode
  /\ out = <<ToolResponseLine(resultContent)>>
  /\ written = 1
  /\ errWritten = 0
  /\ kills = {}
  /\ stderr = <<>>
  /\ timeout = "unset"
  /\ handlers = FALSE
  /\ events = <<>>
  /\ promise = Pending
  /\ pc = "loop"
  /\ parts = <<>>
  /\ currentTextPartId = NoId
  /\ textStartEmitted = FALSE
  /\ nextId = 1
  /\ consumed = <<>>
  /\ stream = StreamOpen
  /\ teardown = NoTeardown
  /\ settings = DefaultSettings
  /\ computedEnv = NotComputed
  /\ request = [system |-> Undefined, prompt |-> "hi"]
  /\ args = <<>>
  /\ exported = Undefined
  /\ calls = <<>>
  /\ pipe = <<>>
  /\ sessionObjects = <<>>
  /\ requests = <<>>
  /\ sessions = <<>>
  /\ callPrompt = <<>>

\* the session export converts the same tool result:
\* extractToolResultText(content, 'user')
ExportToolResult ==
  /\ exported = Undefined
  /\ exported' = extractToolResultText(resultContent, "user")
  /\ UNCHANGED <<callVars, settings, computedEnv, request, args, resultContent,
                 calls,
                 callPrompt,
                 sessions,
                 requests,
                 sessionObjects,
                 pipe>>

ToolTextSpec == ToolTextInit /\ [][StreamLine \/ ExportToolResult]_vars

ForUser(c) == ~c.annotated \/ "user" \in c.audience

\* C24: the streaming call turns a tool response into one tool-result part
\* whose output is built, in the original order, from exactly the items of
\* the content list that have no audience annotation or whose audience
\* includes 'user'; an item annotated for 'assistant' only contributes
\* nothing, and the part's tool name is 'unknown'.
C24_ToolResultOnlyForUser ==
  consumed # <<>> =>
    LET kept == SelectSeq(resultContent, ForUser)
    IN /\ Len(parts) = 1
       /\ parts[1].type = "tool-result"
       /\ parts[1].toolName = "unknown"
       /\ parts[1].delta = Join([i \in 1..Len(kept) |-> MapItem(kept[i])])

C24_Witness ==
  /\ consumed # <<>>
  /\ resultContent =
       <<ResultItem("text", "s", TRUE, {"assistant"}), ResultItem("text", "r", FALSE, {})>>
  /\ parts[1].delta = "r"

PartKey(p) ==
  [type |-> p.type,
   key |-> IF p.type = "text-delta" THEN p.delta
           ELSE IF p.type \in {"tool-call", "tool-result"} THEN p.toolCallId
           ELSE ""]

\* the same for a content item that triggers a part
ItemKeys(role, c) ==
  IF role = "assistant" /\ c.type = "text" /\ c.text # ""
  THEN <<[type |-> "text-delta", key |-> c.text]>>
  ELSE IF role = "assistant" /\ c.type = "toolRequest" /\ c.hasToolCall
  THEN <<[type |-> "tool-call", key |-> c.id]>>
  ELSE IF role = "user" /\ c.type = "toolResponse"
  THEN <<[type |-> "tool-result", key |-> c.id]>>
  ELSE <<>>

RECURSIVE ContentKeys(_, _)
ContentKeys(role, items) ==
  IF items = <<>> THEN <<>>
  ELSE ItemKeys(role, Head(items)) \o ContentKeys(role, Tail(items))

\* the triggers in the lines read, line by line and item by item
RECURSIVE TriggerKeys(_)
TriggerKeys(ls) ==
  IF ls = <<>> THEN <<>>
  ELSE (IF Head(ls).type = "message"
        THEN ContentKeys(Head(ls).role, Head(ls).content)
        ELSE IF Head(ls).type = "complete"
        THEN <<[type |-> "finish", key |-> ""]>>
        ELSE <<>>)
       \o TriggerKeys(Tail(ls))

IsTriggered(p) == p.type \in {"text-delta", "tool-call", "tool-result", "finish"}

PartKeys(ps) ==
  LET triggered == SelectSeq(ps, IsTriggered)
  IN [i \in 1..Len(triggered) |-> PartKey(triggered[i])]

IsPrefix(s, t) == Len(s) =< Len(t) /\ SubSeq(t, 1, Len(s)) = s

\* C25: within a streaming call the parts are emitted in the order in which
\* their triggering events, and the content items inside each event, were
\* read: every step only appends to the parts emitted so far, and the
\* text deltas, tool calls, tool results and finish parts come in exactly
\* the order of the items and events that trigger them in the lines read.
C25_PartsInReadOrder ==
  [][ /\ IsPrefix(parts, parts')
      /\ call' = "stream" => PartKeys(parts') = TriggerKeys(consumed')
    ]_vars

C25_Witness ==
  /\ Len(consumed) = 2
  /\ consumed[1] = AssistantMsg(<<TextA, ToolReq, TextB>>)
  /\ consumed[2].role = "user"
  /\ Len(PartKeys(parts)) = 4
  /\ PartKeys(parts)[3].key = "b"


\* --------------------------------------------------- the aggregate result
RECURSIVE Concat(_)
Concat(strings) ==
  IF strings = <<>> THEN "" ELSE Head(strings) \o Concat(Tail(strings))

IsTextTrigger(k) == k.type = "text-delta"

\* the texts of the assistant text items of the events, in arrival order
AssistantTexts(evs) ==
  LET texts == SelectSeq(TriggerKeys(evs), IsTextTrigger)
  IN [i \in 1..Len(texts) |-> texts[i].key]

\* the total_tokens of the complete event, 0 when there is none
CompleteTokens(evs) ==
  LET completes == SelectSeq(evs, IsComplete)
  IN IF completes = <<>> THEN 0 ELSE completes[Len(completes)].total_tokens

\* C26: a non-streaming call that succeeds returns one result whose text is
\* the concatenation, in arrival order, of the text of every assistant text
\* item of every message event, whose finish reason is 'stop' and whose
\* output token count is the total_tokens of the complete event (0 when
\* there is none); tool items and the text of user messages add nothing.
C26_AggregateResult ==
  (call = "generate" /\ promise.state = "fulfilled") =>
    /\ promise.text = Concat(AssistantTexts(events))
    /\ promise.finishReason = "stop"
    /\ promise.tokens = CompleteTokens(events)

C26_Witness ==
  /\ call = "generate"
  /\ promise.state = "fulfilled"
  /\ events = <<AssistantMsg(<<TextA, ToolReq, TextB>>),
                Line("message", "user", <<ToolResp, TextA>>, 0, ""),
                Line("complete", "", <<>>, 2, "")>>
  /\ promise.text = "ab"
  /\ promise.tokens = 2


\* ------------------------------------------------------------------ buildEnv
\* model ids: the local configuration, provider/model pairs, an empty model
\* or provider, an unsupported provider, a model name with a second '/', a
\* name every object inherits, and an id with no '/'
ModelIds ==
  { <<"goose">>, <<"anthropic", "/", "claude">>, <<"ollama", "/", "llama">>,
    <<"openai", "/">>, <<"/", "claude">>, <<"mistral", "/", "m">>,
    <<"google", "/", "a", "/", "b">>, <<"toString", "/", "x">>, <<"claude">> }

\* settings.env: absent, a variable of the caller's, and maps that name the
\* variables buildEnv sets
Envs ==
  { EmptyEnv, [k \in {"CUSTOM_VAR"} |-> "value"],
    [k \in {"CONFIGURE"} |-> "true"], [k \in {"GOOSE_PROVIDER"} |-> "custom"] }

EnvInit ==
  /\ CallInit
  /\ abortSignal = "absent"
  /\ settings \in
       {Settings(id, env, apiKey, maxTurns, Undefined, FALSE, <<>>) :
          id \in ModelIds, env \in Envs, apiKey \in {Undefined, "", "sk"},
          maxTurns \in {NoMaxTurns, 0, 5}}
  /\ computedEnv = NotComputed
  /\ request = [system |-> Undefined, prompt |-> "hi"]
  /\ args = <<>>
  /\ resultContent = <<>>
  /\ exported = Undefined
  /\ calls = <<>>
  /\ pipe = <<>>
  /\ sessionObjects = <<>>
  /\ requests = <<>>
  /\ sessions = <<>>
  /\ callPrompt = <<>>

\* the constructor: this.computedEnv = this.buildEnv()
Construct ==
  /\ computedEnv = NotComputed
  /\ computedEnv' = buildEnv(settings)
  /\ UNCHANGED <<callVars, settings, request, args, resultContent, exported,
                 calls,
                 callPrompt,
                 sessions,
                 requests,
                 sessionObjects,
                 pipe>>

EnvSpec == EnvInit /\ [][Construct]_vars

\* C28: the flag disabling interactive setup prompts is always set: for
\* every model id and every settings object, also one with its own env map,
\* the computed environment has CONFIGURE = 'false'.
C28_ConfigureAlwaysFalse ==
  computedEnv # NotComputed =>
    /\ "CONFIGURE" \in DOMAIN computedEnv
    /\ computedEnv["CONFIGURE"] = "false"

\* the id is provider/model, split at the first '/', with a supported
\* provider and a non-empty model
IsProviderModel(id) ==
  /\ Len(id) >= 3
  /\ id[1] \in PROVIDERS
  /\ id[2] = "/"

\* the value of a variable, Undefined when it is not set
Var(env, name) == IF name \in DOMAIN env THEN env[name] ELSE Undefined

\* the API-key variable names of the provider table
ApiKeyNames ==
  {"ANTHROPIC_API_KEY", "OPENAI_API_KEY", "GOOGLE_API_KEY", "XAI_API_KEY"}

\* C29: GOOSE_PROVIDER and GOOSE_MODEL are set from the model id exactly when
\* the id is provider/model with a supported provider and a non-empty model
\* (split at the first '/'); for 'goose' and every other id buildEnv sets
\* neither, so they are as the caller's env map has them. A variable for
\* the API key is added only when an apiKey is given with such an id, under
\* the name of the provider table, and never for ollama.
C29_ProviderVarsFromModelId ==
  computedEnv # NotComputed =>
    LET id == settings.modelId
        added == DOMAIN computedEnv \ (DOMAIN settings.env \cup
                   {"CONFIGURE", "GOOSE_PROVIDER", "GOOSE_MODEL", "GOOSE_MAX_TURNS"})
    IN /\ IF IsProviderModel(id)
          THEN /\ Var(computedEnv, "GOOSE_PROVIDER") = id[1]
               /\ Var(computedEnv, "GOOSE_MODEL") = Text(SubSeq(id, 3, Len(id)))
               /\ added = IF Truthy(settings.apiKey) /\ id[1] # "ollama"
                          THEN {API_KEY_ENV_VARS(id[1])} ELSE {}
               /\ added \subseteq ApiKeyNames
               /\ \A name \in added : computedEnv[name] = settings.apiKey
          ELSE /\ Var(computedEnv, "GOOSE_PROVIDER") = Var(settings.env, "GOOSE_PROVIDER")
               /\ Var(computedEnv, "GOOSE_MODEL") = Var(settings.env, "GOOSE_MODEL")
               /\ added = {}


\* --------------------------------------------------------- concurrent calls
\* two streaming calls on one model instance
CallIds == {1, 2}

\* the lines the processes of the concurrent calls write
PeerLines ==
  { AssistantMsg(<<TextA>>), AssistantMsg(<<ToolReq>>),
    Line("complete", "", <<>>, 2, ""), Line("error", "", <<>>, 0, "boom") }

\* the locals of one createStreamFromProcess: its child's stdout (wrote is
\* all that the child wrote, out what is not yet read), the lines read, the
\* parts yielded, the text segment state and the stream's status
StreamCall(wrote, unread, read, st, status) ==
  [wrote |-> wrote, out |-> unread, consumed |-> read, parts |-> st.parts,
   currentTextPartId |-> st.currentTextPartId,
   textStartEmitted |-> st.textStartEmitted, nextId |-> st.nextId,
   status |-> status]

TranslatorOf(c) ==
  Translator(c.parts, c.currentTextPartId, c.textStartEmitted, c.nextId)

\* both calls have spawned their process and entered the line loop
ConcurrentInit ==
  /\ CallInit
  /\ abortSignal = "absent"
  /\ settings = DefaultSettings
  /\ computedEnv = NotComputed
  /\ request = [system |-> Undefined, prompt |-> "hi"]
  /\ args = <<>>
  /\ resultContent = <<>>
  /\ exported = Undefined
  /\ calls = [id \in CallIds |->
                StreamCall(<<>>, <<>>, <<>>, Translator(<<>>, NoId, FALSE, 1), "open")]
  /\ pipe = <<>>
  /\ sessionObjects = <<>>
  /\ requests = <<>>
  /\ sessions = <<>>
  /\ callPrompt = <<>>

\* the process of call id writes a line to its stdout
ProcWriteOf(id, line) ==
  /\ Len(calls[id].wrote) < MaxPeerLines
  /\ calls' = [calls EXCEPT ![id].wrote = Append(@, line),
                            ![id].out = Append(@, line)]
  /\ UNCHANGED <<callVars, settings, computedEnv, request, args, resultContent,
                 exported,
                 callPrompt,
                 sessions,
                 requests,
                 sessionObjects,
                 pipe>>

\* one iteration of the line loop changed so that the text segment state is
\* kept on the instance: every call reads and writes the same two fields
StreamLineOf_SharedSegmentState(id) ==
  LET c == calls[id]
      line == Head(c.out)
      shared == calls[1]
      st == Translate(line, Translator(c.parts, shared.currentTextPartId,
                                       shared.textStartEmitted, c.nextId))
  IN /\ c.status = "open"
     /\ c.out # <<>>
     /\ calls' =
          [k \in CallIds |->
             IF line.type = "error"
             THEN IF k = id
                  THEN [c EXCEPT !.out = Tail(@), !.consumed = Append(@, line),
                                 !.status = "errored"]
                  ELSE calls[k]
             ELSE [(IF k = id
                    THEN [c EXCEPT !.out = Tail(@), !.consumed = Append(@, line),
                                   !.parts = st.parts, !.nextId = st.nextId]
                    ELSE calls[k])
                   EXCEPT !.currentTextPartId = st.currentTextPartId,
                          !.textStartEmitted = st.textStartEmitted]]
     /\ UNCHANGED <<callVars, settings, computedEnv, request, args,
                    resultContent, exported,
                 callPrompt,
                 sessions,
                 requests,
                 sessionObjects,
                 pipe>>

\* one iteration of the line loop of call id
StreamLineOf(id) ==
  LET c == calls[id]
      line == Head(c.out)
      st == Translate(line, TranslatorOf(c))
  IN /\ c.status = "open"
     /\ c.out # <<>>
     /\ calls' =
          [calls EXCEPT ![id] =
             IF line.type = "error"
             THEN [c EXCEPT !.out = Tail(@), !.consumed = Append(@, line),
                            !.status = "errored"]
             ELSE StreamCall(c.wrote, Tail(c.out), Append(c.consumed, line),
                             st, c.status)]
     /\ UNCHANGED <<callVars, settings, computedEnv, request, args,
                    resultContent, exported,
                 callPrompt,
                 sessions,
                 requests,
                 sessionObjects,
                 pipe>>

ConcurrentNext ==
  \/ \E id \in CallIds, line \in PeerLines : ProcWriteOf(id, line)
  \/ \E id \in CallIds : StreamLineOf(id)

ConcurrentSpec == ConcurrentInit /\ [][ConcurrentNext]_vars

\* C27: concurrent calls on one instance share no mutable state: each call
\* reads the lines of its own process only, and its parts and its outcome
\* are those of the lines it has read, whatever the other call's process
\* wrote and however the steps of the two calls interleave.
C27_CallsDoNotInterfere ==
  \A id \in DOMAIN calls :
    LET c == calls[id]
        st == TranslateEvents(SelectSeq(c.consumed, LAMBDA l : ~IsUnparsable(l)),
                              Translator(<<>>, NoId, FALSE, 1))
    IN /\ c.consumed \o c.out = c.wrote
       /\ c.parts = st.parts
       /\ c.currentTextPartId = st.currentTextPartId
       /\ c.textStartEmitted = st.textStartEmitted
       /\ c.status = "errored" <=> HasErrorEvent(c.consumed)

C27_Witness ==
  /\ calls # <<>>
  /\ calls[1].consumed = <<AssistantMsg(<<TextA>>), AssistantMsg(<<TextA>>)>>
  /\ calls[2].consumed =
       <<AssistantMsg(<<ToolReq>>), Line("error", "", <<>>, 0, "boom")>>
  /\ Len(calls[1].parts) = 3
  /\ calls[1].status = "open"
  /\ calls[2].status = "errored"


\* ------------------------------------------------------- extractPromptParts
\* a message's content is a string or a list of parts
StringContent(text) == [isString |-> TRUE, text |-> text, parts |-> <<>>]
PartsContent(list) == [isString |-> FALSE, text |-> "", parts |-> list]
PromptPart(type, text) == [type |-> type, text |-> text]
Message(role, content) == [role |-> role, content |-> content]

Messages ==
  { Message("system", StringContent("be brief")),
    Message("system", StringContent("be kind")),
    Message("system", PartsContent(<<PromptPart("text", "be loud")>>)),
    Message("user", StringContent("hi")),
    Message("user", PartsContent(<<PromptPart("text", "Part 1"),
                                   PromptPart("file", ""),
                                   PromptPart("text", "Part 2")>>)),
    Message("assistant", PartsContent(<<PromptPart("text", "sure")>>)),
    Message("tool", PartsContent(<<PromptPart("tool-result", "")>>)) }

\* the prompt of the call options: a message list, or another value
ArrayPrompt(messages) == [isArray |-> TRUE, messages |-> messages, value |-> ""]
OtherPrompt(value) == [isArray |-> FALSE, messages |-> <<>>, value |-> value]

\* String(prompt)
String(value) == IF value = Undefined THEN "undefined" ELSE value

\* userMessages.join('\n\n')
RECURSIVE JoinWith(_, _)
JoinWith(texts, separator) ==
  IF texts = <<>> THEN ""
  ELSE IF Len(texts) = 1 THEN Head(texts)
  ELSE Head(texts) \o separator \o JoinWith(Tail(texts), separator)

\* for (const part of message.content) if (part.type === 'text') push(part.text)
RECURSIVE PushTextParts(_, _)
PushTextParts(list, userMessages) ==
  IF list = <<>> THEN userMessages
  ELSE PushTextParts(Tail(list),
                     IF Head(list).type = "text"
                     THEN Append(userMessages, Head(list).text)
                     ELSE userMessages)

\* the message loop changed so that the first system message is kept
RECURSIVE PromptLoop_FirstSystemWins(_, _, _)
PromptLoop_FirstSystemWins(messages, system, userMessages) ==
  IF messages = <<>>
  THEN [system |-> system, prompt |-> JoinWith(userMessages, "\n\n")]
  ELSE LET message == Head(messages)
       IN CASE message.role = "system" ->
                 PromptLoop_FirstSystemWins(Tail(messages),
                            IF message.content.isString /\ system = Undefined
                            THEN message.content.text ELSE system,
                            userMessages)
            [] message.role = "user" ->
                 PromptLoop_FirstSystemWins(Tail(messages), system,
                            IF message.content.isString
                            THEN Append(userMessages, message.content.text)
                            ELSE PushTextParts(message.content.parts, userMessages))
            [] OTHER -> PromptLoop_FirstSystemWins(Tail(messages), system, userMessages)

\* for (const message of prompt) switch (message.role), then the return
RECURSIVE PromptLoop(_, _, _)
PromptLoop(messages, system, userMessages) ==
  IF messages = <<>>
  THEN [system |-> system, prompt |-> JoinWith(userMessages, "\n\n")]
  ELSE LET message == Head(messages)
       IN CASE message.role = "system" ->
                 PromptLoop(Tail(messages),
                            IF message.content.isString
                            THEN message.content.text ELSE system,
                            userMessages)
            [] message.role = "user" ->
                 PromptLoop(Tail(messages), system,
                            IF message.content.isString
                            THEN Append(userMessages, message.content.text)
                            ELSE PushTextParts(message.content.parts, userMessages))
            [] OTHER -> PromptLoop(Tail(messages), system, userMessages)

extractPromptParts(prompt) ==
  IF prompt.isArray
  THEN PromptLoop(prompt.messages, Undefined, <<>>)
  ELSE [prompt |-> String(prompt.value)]

NotExtracted == [pending |-> TRUE]

PromptInit ==
  /\ CallInit
  /\ abortSignal = "absent"
  /\ settings = DefaultSettings
  /\ computedEnv = NotComputed
  /\ callPrompt \in {ArrayPrompt(m) : m \in SeqsUpTo(Messages, MaxMessages)}
                      \cup {OtherPrompt("Hello"), OtherPrompt("")}
  /\ request = NotExtracted
  /\ args = <<>>
  /\ resultContent = <<>>
  /\ exported = Undefined
  /\ calls = <<>>
  /\ pipe = <<>>
  /\ sessionObjects = <<>>
  /\ requests = <<>>
  /\ sessions = <<>>

\* doGenerate / doStream: const { system, prompt } = this.extractPromptParts(...)
ExtractPrompt ==
  /\ request = NotExtracted
  /\ request' = extractPromptParts(callPrompt)
  /\ UNCHANGED <<callVars, settings, computedEnv, args, resultContent, exported,
                 calls, callPrompt,
                 sessions,
                 requests,
                 sessionObjects,
                 pipe>>

PromptSpec == PromptInit /\ [][ExtractPrompt]_vars

\* the texts a message contributes to the user prompt
UserTextsOf(message) ==
  IF message.role # "user" THEN <<>>
  ELSE IF message.content.isString THEN <<message.content.text>>
  ELSE LET texts == SelectSeq(message.content.parts, LAMBDA p : p.type = "text")
       IN [i \in 1..Len(texts) |-> texts[i].text]

RECURSIVE UserTexts(_)
UserTexts(messages) ==
  IF messages = <<>> THEN <<>>
  ELSE UserTextsOf(Head(messages)) \o UserTexts(Tail(messages))

StringSystems(messages) ==
  {i \in 1..Len(messages) :
     messages[i].role = "system" /\ messages[i].content.isString}

\* C31: extractPromptParts returns, for a message list, the content of the
\* last system message with string content as system (undefined when there
\* is none) and the texts of the user messages and user text parts, in
\* order and joined by a blank line, as prompt; assistant and tool messages
\* contribute nothing; another prompt is returned as the prompt, with no
\* system field.
C31_PromptParts ==
  request # NotExtracted =>
    IF callPrompt.isArray
    THEN LET messages == callPrompt.messages
             systems == StringSystems(messages)
             last == CHOOSE i \in systems : \A j \in systems : j <= i
         IN /\ DOMAIN request = {"system", "prompt"}
            /\ request.system =
                 IF systems = {} THEN Undefined ELSE messages[last].content.text
            /\ request.prompt = JoinWith(UserTexts(messages), "\n\n")
            /\ request =
                 extractPromptParts(ArrayPrompt(
                   SelectSeq(messages, LAMBDA m : m.role \in {"system", "user"})))
    ELSE /\ DOMAIN request = {"prompt"}
         /\ request.prompt = callPrompt.value

C31_Witness ==
  /\ request # NotExtracted
  /\ callPrompt.isArray
  /\ Len(callPrompt.messages) = 3
  /\ callPrompt.messages[1].role = "system"
  /\ callPrompt.messages[1].content.isString
  /\ callPrompt.messages[2].role = "user"
  /\ ~callPrompt.messages[2].content.isString
  /\ callPrompt.messages[3].role = "system"
  /\ callPrompt.messages[3].content.isString
  /\ callPrompt.messages[3] # callPrompt.messages[1]
  /\ request.system = callPrompt.messages[3].content.text
  /\ request.prompt = "Part 1\n\nPart 2"


\* ------------------------------------------------------------- teardown
\* the non-streaming call has finished and its process is gone
GenerateFinished ==
  /\ call = "generate"
  /\ promise.state # "pending"
  /\ child \in {"closed", "failed"}

\* C32: on every exit path of a non-streaming call (success, timeout,
\* abort, spawn failure, non-zero exit), once the call has finished and the
\* process has closed, the timer is cancelled and the abort listener is
\* detached, and the timer cancellation and the listener detachment have
\* each been performed exactly once.
C32_TeardownExactlyOnce ==
  GenerateFinished =>
    /\ timeout # "armed"
    /\ ~listening
    /\ teardown.clears = 1
    /\ teardown.detaches <= 1
    /\ (handlers /\ abortSignal # "absent") => teardown.detaches = 1


\* ------------------------------------------- the example HTTP collaborator
SessionIds == {"s1", "s2"}
NoToken == 0

\* sessions.set(sessionId, object): the store maps an id to a session
\* object, named here by its place in sessionObjects
SetSession(store, sessionId, object) ==
  [id \in DOMAIN store \cup {sessionId} |->
     IF id = sessionId THEN object ELSE store[id]]

\* a POST /stream/:sessionId request, the session object its handler holds
\* and the position of the handler
StreamRequest(sessionId, token, prompt, resume, session, at) ==
  [sessionId |-> sessionId, token |-> token, prompt |-> prompt,
   resume |-> resume, session |-> session, at |-> at,
   shouldResume |-> FALSE]

ServerInit ==
  /\ CallInit
  /\ abortSignal = "absent"
  /\ settings = DefaultSettings
  /\ computedEnv = NotComputed
  /\ request = [system |-> Undefined, prompt |-> "hi"]
  /\ args = <<>>
  /\ resultContent = <<>>
  /\ exported = Undefined
  /\ calls = <<>>
  /\ pipe = <<>>
  /\ callPrompt = <<>>
  /\ sessions = <<>>
  /\ requests = <<>>
  /\ sessionObjects = <<>>

\* POST /session: a new object with a new token is stored under the id
handleCreateSession(sessionId) ==
  /\ Len(sessionObjects) < MaxSessions
  /\ sessionObjects' =
       Append(sessionObjects,
              [token |-> Len(sessionObjects) + 1, resume |-> FALSE])
  /\ sessions' = SetSession(sessions, sessionId, Len(sessionObjects) + 1)
  /\ UNCHANGED <<callVars, settings, computedEnv, request, args, resultContent,
                 exported, calls, callPrompt, requests,
                 pipe>>

\* POST /stream/:sessionId up to `await parseBody(req)`: the session and
\* the token are validated
handleStream(sessionId, token, prompt, resume) ==
  /\ Len(requests) < MaxRequests
  /\ requests' =
       Append(requests,
              IF sessionId \notin DOMAIN sessions
                 \/ sessionObjects[sessions[sessionId]].token # token
              THEN StreamRequest(sessionId, token, prompt, resume, NoToken, "401")
              ELSE StreamRequest(sessionId, token, prompt, resume,
                                 sessions[sessionId], "parseBody"))
  /\ UNCHANGED <<callVars, settings, computedEnv, request, args, resultContent,
                 exported, calls, callPrompt, sessions, sessionObjects,
                 pipe>>

\* the body has arrived: without a prompt the request is refused, otherwise
\* streamText starts the generation for sessionName = sessionId and the
\* session object of this request is marked resumable
StartStream(r) ==
  /\ r \in DOMAIN requests
  /\ requests[r].at = "parseBody"
  /\ LET req == requests[r]
     IN IF req.prompt = ""
        THEN /\ requests' = [requests EXCEPT ![r].at = "400"]
             /\ UNCHANGED sessionObjects
        ELSE /\ requests' =
                  [requests EXCEPT
                     ![r].at = "streaming",
                     ![r].shouldResume =
                        IF req.resume = Undefined
                        THEN sessionObjects[req.session].resume
                        ELSE req.resume = "true"]
             /\ sessionObjects' =
                  [sessionObjects EXCEPT ![req.session].resume = TRUE]
  /\ UNCHANGED <<callVars, settings, computedEnv, request, args, resultContent,
                 exported, calls, callPrompt, sessions,
                 pipe>>

\* result.fullStream has ended (normally or with an error): res.end()
EndStream(r) ==
  /\ r \in DOMAIN requests
  /\ requests[r].at = "streaming"
  /\ requests' = [requests EXCEPT ![r].at = "ended"]
  /\ UNCHANGED <<callVars, settings, computedEnv, request, args, resultContent,
                 exported, calls, callPrompt, sessions, sessionObjects,
                 pipe>>

ServerNext ==
  \/ \E sessionId \in SessionIds : handleCreateSession(sessionId)
  \/ \E sessionId \in SessionIds, token \in NoToken..MaxSessions,
        prompt \in {"", "hi"}, resume \in {Undefined, "true", "false"} :
       handleStream(sessionId, token, prompt, resume)
  \/ \E r \in 1..MaxRequests : StartStream(r)
  \/ \E r \in 1..MaxRequests : EndStream(r)

ServerSpec == ServerInit /\ [][ServerNext]_vars

\* C33: the HTTP collaborator serializes access per session identifier:
\* of two stream requests with the same session id, the second starts no
\* generation call until the stream of the first has ended, so no two
\* generations run against one session name at a time.
C33_OneStreamPerSession ==
  \A r1, r2 \in DOMAIN requests :
    (/\ r1 # r2
     /\ requests[r1].sessionId = requests[r2].sessionId
     /\ requests[r1].at = "streaming")
    => requests[r2].at # "streaming"


\* ----------------------------------------------- stdout, readline, decoder
NL == "\n"
Chars == {"x", "y", NL}

\* the child's stdout and createInterface({ input: child.stdout }): what
\* the process has written, readline's unfinished line, the lines emitted
\* to the async iterator and not yet taken by `for await`, and the lines
\* handed to JSON.parse
Pipe(variant) ==
  [variant |-> variant, written |-> <<>>, lineBuffer |-> <<>>, queue |-> <<>>,
   decoded |-> <<>>, child |-> "running", outcome |-> "pending"]

\* a 'line' event: rl.on('line') decodes at once, the async iterator of
\* the streaming call queues the line for the loop
EmitLine(p, line) ==
  IF p.variant = "generate"
  THEN [p EXCEPT !.decoded = Append(@, line)]
  ELSE [p EXCEPT !.queue = Append(@, line)]

\* readline on a chunk of stdout data: every end-of-line gives a 'line'
\* event, the rest is kept for the next chunk
RECURSIVE ReadlineData(_, _)
ReadlineData(p, chunk) ==
  IF chunk = <<>> THEN p
  ELSE IF Head(chunk) = NL
  THEN ReadlineData(EmitLine([p EXCEPT !.lineBuffer = <<>>], p.lineBuffer),
                    Tail(chunk))
  ELSE ReadlineData([p EXCEPT !.lineBuffer = Append(@, Head(chunk))],
                    Tail(chunk))

\* readline changed so that an unfinished last line is dropped when the
\* input ends
ReadlineEnd_NoFlush(p) == [p EXCEPT !.lineBuffer = <<>>]

\* readline when stdout ends: an unfinished last line gives a 'line' event
ReadlineEnd(p) ==
  IF p.lineBuffer # <<>>
  THEN EmitLine([p EXCEPT !.lineBuffer = <<>>], p.lineBuffer)
  ELSE p

StdoutInit ==
  /\ CallInit
  /\ abortSignal = "absent"
  /\ settings = DefaultSettings
  /\ computedEnv = NotComputed
  /\ request = [system |-> Undefined, prompt |-> "hi"]
  /\ args = <<>>
  /\ resultContent = <<>>
  /\ exported = Undefined
  /\ calls = <<>>
  /\ callPrompt = <<>>
  /\ sessions = <<>>
  /\ requests = <<>>
  /\ sessionObjects = <<>>
  /\ pipe \in {Pipe("generate"), Pipe("stream")}

\* the process writes a chunk to stdout
StdoutData(chunk) ==
  /\ pipe.child = "running"
  /\ Len(pipe.written) + Len(chunk) <= MaxChars
  /\ pipe' = ReadlineData([pipe EXCEPT !.written = @ \o chunk], chunk)
  /\ UNCHANGED <<callVars, settings, computedEnv, request, args, resultContent,
                 exported, calls, callPrompt, sessions, requests,
                 sessionObjects>>

\* the process exits and its stdout ends
StdoutEnd ==
  /\ pipe.child = "running"
  /\ pipe' = ReadlineEnd([pipe EXCEPT !.child = "exited"])
  /\ UNCHANGED <<callVars, settings, computedEnv, request, args, resultContent,
                 exported, calls, callPrompt, sessions, requests,
                 sessionObjects>>

\* one iteration of `for await (const line of rl)`
NextLine ==
  /\ pipe.variant = "stream"
  /\ pipe.outcome = "pending"
  /\ pipe.queue # <<>>
  /\ pipe' = [pipe EXCEPT !.queue = Tail(@), !.decoded = Append(@, Head(pipe.queue))]
  /\ UNCHANGED <<callVars, settings, computedEnv, request, args, resultContent,
                 exported, calls, callPrompt, sessions, requests,
                 sessionObjects>>

\* the 'close' event, after the stdio streams have closed: the
\* non-streaming call settles; in the streaming call the loop has ended
\* with the iterator drained and the generator finishes
ChildClose ==
  /\ pipe.child = "exited"
  /\ pipe.variant = "stream" => pipe.queue = <<>>
  /\ pipe' = [pipe EXCEPT !.child = "closed",
                          !.outcome = IF @ = "pending" THEN "closed" ELSE @]
  /\ UNCHANGED <<callVars, settings, computedEnv, request, args, resultContent,
                 exported, calls, callPrompt, sessions, requests,
                 sessionObjects>>

\* the timeout callback or onAbort of the non-streaming call rejects while
\* the process has not closed
EndEarly ==
  /\ pipe.variant = "generate"
  /\ pipe.child # "closed"
  /\ pipe.outcome = "pending"
  /\ pipe' = [pipe EXCEPT !.outcome = "early"]
  /\ UNCHANGED <<callVars, settings, computedEnv, request, args, resultContent,
                 exported, calls, callPrompt, sessions, requests,
                 sessionObjects>>

StdoutNext ==
  \/ \E chunk \in SeqsUpTo(Chars, MaxChunk) \ {<<>>} : StdoutData(chunk)
  \/ StdoutEnd
  \/ NextLine
  \/ ChildClose
  \/ EndEarly

StdoutSpec == StdoutInit /\ [][StdoutNext]_vars

\* the lines of an output: its parts between end-of-lines, with the part
\* after the last end-of-line if that is not empty
RECURSIVE LinesOf(_, _)
LinesOf(output, line) ==
  IF output = <<>> THEN (IF line = <<>> THEN <<>> ELSE <<line>>)
  ELSE IF Head(output) = NL THEN <<line>> \o LinesOf(Tail(output), <<>>)
  ELSE LinesOf(Tail(output), Append(line, Head(output)))

FairSpec ==
  /\ Spec
  /\ WF_vars(StreamLine)
  /\ WF_vars(StreamEnd)
  /\ WF_vars(StreamClose)

\* C35: a streaming call terminates once its process has exited: after the
\* process's output has ended the stream eventually closes or fails, for
\* every interleaving of the 'close' event with the generator's reading of
\* the remaining lines, also when the event comes before the generator
\* waits for it.
C35_StreamTerminates ==
  (call = "stream" /\ child \in {"exited", "closed"}) ~> (stream.status # "open")


\* ----------------------------------------------------- success and exit 0
\* C36: a call reports success only if its process exited with code 0: a
\* process terminated by a signal, which has no exit code, never makes
\* doGenerate return a result and never makes a stream close without an
\* error.
C36_SuccessOnlyOnExitZero ==
  /\ (call = "generate" /\ promise.state = "fulfilled") => exitCode = 0
  /\ (call = "stream" /\ stream.status = "closed") => exitCode = 0


\* ------------------------------------------------------------ one outcome
\* a step in which the timer expires, onAbort runs, the 'error' handler
\* runs or the 'close' handler runs
SettlingEvent ==
  \/ timeout = "armed" /\ timeout' = "fired"
  \/ abortedWhen = "never" /\ abortedWhen' # "never"
  \/ child = "spawnfail" /\ child' = "failed"
  \/ handlers /\ child = "exited" /\ child' = "closed"

\* C37: a non-streaming call has exactly one outcome, fixed by the first of
\* timer expiry, abort, spawn failure and process close: the first of these
\* settles the call, no later close, abort or timer event turns a failed
\* call into a result or into another error, and after the process has
\* closed an abort runs no onAbort and sends no signal.
C37_OutcomeFixedByFirstEvent ==
  [][ call' = "generate" =>
        /\ promise.state # "pending" => promise' = promise
        /\ SettlingEvent => promise'.state # "pending"
        /\ promise.state = "pending" /\ promise'.state # "pending" => SettlingEvent
        /\ child = "closed" => (kills' = kills /\ abortedWhen' = abortedWhen) ]_vars

C37_Witness ==
  /\ call = "generate"
  /\ promise.state = "rejected"
  /\ promise.error = createTimeoutError
  /\ timeout = "fired"
  /\ abortedWhen = "running"
  /\ child = "closed"
  /\ exitCode = 0
  /\ Len(events) > 0


\* ------------------------------------------------- the two variants agree
\* well-formed events, none of them an error event, ending with the one
\* complete event
EndsWithOneComplete(evs) ==
  /\ evs # <<>>
  /\ \A i \in 1..Len(evs) : evs[i].type \notin {"unparsable", "error"}
  /\ \A i \in 1..Len(evs) : evs[i].type = "complete" <=> i = Len(evs)

DeltaTexts(ps) ==
  LET deltas == SelectSeq(ps, LAMBDA p : p.type = "text-delta")
  IN [i \in 1..Len(deltas) |-> deltas[i].delta]

FinishParts(ps) == SelectSeq(ps, LAMBDA p : p.type = "finish")

\* C38: the two variants decode alike: for well-formed events with no error
\* event that end with a single complete event, from a process that exits
\* with code 0, the text-delta texts of the stream, concatenated, are the
\* text of the non-streaming result for the same events, and the finish
\* part's output token count is that of the non-streaming result.
C38_VariantsDecodeAlike ==
  (/\ call = "stream"
   /\ stream.status = "closed"
   /\ exitCode = 0
   /\ EndsWithOneComplete(consumed))
  => LET result == eventsToGenerateResult(consumed)
     IN /\ result.state = "fulfilled"
        /\ Concat(DeltaTexts(parts)) = result.text
        /\ Len(FinishParts(parts)) = 1
        /\ FinishParts(parts)[1].tokens = result.tokens

C38_Witness ==
  /\ call = "stream"
  /\ stream.status = "closed"
  /\ exitCode = 0
  /\ consumed = <<AssistantMsg(<<TextA, ToolReq, TextB>>),
                  AssistantMsg(<<TextA>>),
                  Line("complete", "", <<>>, 2, "")>>
  /\ Concat(DeltaTexts(parts)) = "aba"
  /\ eventsToGenerateResult(consumed).tokens = 2


\* ------------------------------------------------------------ segment ids
\* the place in ps of the last text-start before place i, 0 when none
LastTextStart(ps, i) ==
  LET starts == {j \in 1..(i - 1) : ps[j].type = "text-start"}
  IN IF starts = {} THEN 0 ELSE CHOOSE j \in starts : \A k \in starts : k <= j

\* C39: in a streaming call segment ids are used consistently: every
\* text-start carries an id that no earlier text-start of the call carries,
\* and every text-delta and text-end carries the id of the text-start
\* emitted last before it.
C39_SegmentIdsConsistent ==
  call = "stream" =>
    \A i \in 1..Len(parts) :
      /\ parts[i].type = "text-start" =>
           \A j \in 1..(i - 1) :
             parts[j].type = "text-start" => parts[j].id # parts[i].id
      /\ parts[i].type \in {"text-delta", "text-end"} =>
           /\ LastTextStart(parts, i) # 0
           /\ parts[LastTextStart(parts, i)].id = parts[i].id

C39_Witness ==
  /\ call = "stream"
  /\ Len(SelectSeq(parts, LAMBDA p : p.type = "text-start")) = 2
  /\ Len(SelectSeq(parts, LAMBDA p : p.type = "text-delta")) = 3
  /\ parts[Len(parts) - 1].type = "text-end"
  /\ parts[Len(parts)].type = "finish"

====
